---- MODULE Spec2Model ----
(***************************************************************************)
(* A model of cinnabar, a read-only reader of Mercurial revlogs.           *)
(*                                                                         *)
(*   - patch::apply (src/src/patch.rs): the hunk-patch engine.             *)
(*   - util::MappedData (src/src/util.rs): bounds-checked mmap accessors.  *)
(*   - revlog::Revlog and its iterators (src/src/revlog.rs).               *)
(*                                                                         *)
(* Two families of specifications share the module: PatchSpec runs         *)
(* patch::apply, Spec opens and reads a revlog.  Each leaves the other     *)
(* family's variables untouched.                                           *)
(*                                                                         *)
(* Machine words.  TLC's integers are 32 bits wide, so a 64-bit word is    *)
(* written as the signed integer its two's complement bit pattern denotes  *)
(* (an isize).  An `as usize` / `as isize` cast keeps the bit pattern, so  *)
(* it keeps this integer; an unsigned comparison reads a negative integer  *)
(* w as the value w + 2^64, larger than every non-negative one.            *)
(***************************************************************************)
EXTENDS Integers, Sequences, FiniteSets, TLC

VARIABLES
    \* ---- patch::apply (src/src/patch.rs) ----
    buf,        \* the rope `buf`: the buffer at the start of the current stream
    last,       \* `last`: end of the previous hunk in buf
    next,       \* `next`: the output gathered so far for the current stream
    pstatus,    \* "run" inside apply, "done" once it returned, "panic" once it panicked
    result,     \* the Vec apply returned, or NoResult
    policy,     \* what bytes' slice() does with a range outside the rope
    nhunks,     \* hunks decoded from the current stream
    nstreams,   \* streams applied so far
    obs         \* observer: what the inputs were, for stating the properties

VARIABLES
    \* ---- the files on disk ----
    path_ok,    \* the path handed to open ends in ".i"
    ifile,      \* the bytes of the .i file
    dfile,      \* the bytes of the sibling .d file, or Missing
    eof_read,   \* what a read of the byte just past the end of a map gives
    \* ---- revlog::Revlog (src/src/revlog.rs) ----
    rstate,     \* "closed", "scanning" (init's loop), "ready", "failed" (Err), "panic"
    err,        \* which check made open return Err
    mapped,     \* the files open has mapped
    inline,     \* Revlog::inline(): data.is_none()
    generaldelta,
    offset_table,
    incomplete, \* _incomplete
    scan,       \* init's iterator and its offset_tmp
    client      \* the operation a caller of the Ready revlog has in progress

VARIABLES
    \* ---- patch::decode_header and read_slice on a cursor ----
    patch_cur,     \* the Cursor<Vec<u8>>: its bytes and its position
    header      \* what decode_header and read_slice last gave

pvars == <<buf, last, next, pstatus, result, policy, nhunks, nstreams, obs>>

fvars == <<path_ok, ifile, dfile, eof_read>>

rvars == <<rstate, err, mapped, inline, generaldelta, offset_table, incomplete, scan, client>>

hvars == <<patch_cur, header>>

vars == <<pvars, fvars, rvars, hvars>>

----------------------------------------------------------------------------
(* Bounds of the patch inputs. *)
MaxBase == 2      \* longest base buffer
MaxOff == 2       \* hunk offsets a, b range over 0..MaxOff
MaxData == 1      \* longest hunk data
MaxHunks == 2     \* hunks per stream
MaxStreams == 2   \* streams per run
MaxCut == 1       \* bytes a stream may be cut short by

NoResult == <<-1>>

BaseBytes == {65, 66}
DataBytes == {67}

SeqsUpTo(S, n) == UNION {[1..k -> S] : k \in 0..n}

Min(x, y) == IF x <= y THEN x ELSE y

\* What a peer writes: a u32 in big-endian order.
BE32(n) ==
    <<(n \div 16777216) % 256, (n \div 65536) % 256, (n \div 256) % 256, n % 256>>

\* The bytes of one hunk (a, b, c = len(data), data).
EncodeHunk(a, b, data) == BE32(a) \o BE32(b) \o BE32(Len(data)) \o data

----------------------------------------------------------------------------
(* patch.rs *)

\* The mutant of read_u32: the four bytes read in little-endian order.
read_u32_le(bytes, pos) ==
    IF pos + 4 > Len(bytes)
    THEN [ok |-> FALSE, v |-> 0, pos |-> pos]
    ELSE [ok |-> TRUE,
          v |-> ((bytes[pos + 4] * 256 + bytes[pos + 3]) * 256 + bytes[pos + 2]) * 256
                + bytes[pos + 1],
          pos |-> pos + 4]

\* ReadBytesExt::read_u32::<BigEndian> at cursor position pos (0-based).
read_u32(bytes, pos) ==
    IF pos + 4 > Len(bytes)
    THEN [ok |-> FALSE, v |-> 0, pos |-> pos]
    ELSE [ok |-> TRUE,
          v |-> ((bytes[pos + 1] * 256 + bytes[pos + 2]) * 256 + bytes[pos + 3]) * 256
                + bytes[pos + 4],
          pos |-> pos + 4]

\* decode_header: three big-endian u32 reads, each unwrap()ped.
decode_header(bytes, pos) ==
    LET ra == read_u32(bytes, pos)
        rb == read_u32(bytes, ra.pos)
        rc == read_u32(bytes, rb.pos)
    IN  [ok |-> ra.ok /\ rb.ok /\ rc.ok, a |-> ra.v, b |-> rb.v, c |-> rc.v, pos |-> rc.pos]

\* read_slice: read_exact of len bytes, unwrap()ped.
read_slice(bytes, pos, len) ==
    IF len > Len(bytes) - pos
    THEN [ok |-> FALSE, data |-> <<>>, pos |-> pos]
    ELSE [ok |-> TRUE, data |-> SubSeq(bytes, pos + 1, pos + len), pos |-> pos + len]

\* Bytes::slice(begin, end) of the bytes crate.  Inside the rope it is the
\* bytes [begin, end).  The crate is not part of the repository: for a range
\* outside the rope it either panics (the small inline string indexes a
\* slice) or clamps the range (the rope), so both outcomes are kept.
slice(b, begin, end, pol) ==
    IF begin <= end /\ end <= Len(b)
    THEN [ok |-> TRUE, data |-> SubSeq(b, begin + 1, end)]
    ELSE IF pol = "panic"
    THEN [ok |-> FALSE, data |-> <<>>]
    ELSE [ok |-> TRUE,
          data |-> IF begin >= end \/ begin >= Len(b)
                   THEN <<>>
                   ELSE SubSeq(b, begin + 1, Min(end, Len(b)))]

\* Bytes::slice_from(begin) == slice(begin, len).
slice_from(b, begin, pol) == slice(b, begin, Len(b), pol)

\* The mutant of hunk_body: the cursor stays at a, so [a, b) is not deleted.
hunk_body_keep(b, lst, nxt, a, bb, piece, pol) ==
    LET keep == slice(b, lst, a, pol)
    IN  [ok |-> keep.ok, next |-> nxt \o keep.data \o piece, last |-> a]

\* The body of the while loop after the hunk is read: keep buf[last..a],
\* append the piece, move the cursor to b.
hunk_body(b, lst, nxt, a, bb, piece, pol) ==
    LET keep == slice(b, lst, a, pol)
    IN  [ok |-> keep.ok, next |-> nxt \o keep.data \o piece, last |-> bb]

\* One iteration of `while cur.position() != patch_len` on the bytes that
\* remain in the stream.
hunk_step(b, lst, nxt, bytes, pol) ==
    LET h == decode_header(bytes, 0)
        p == read_slice(bytes, h.pos, h.c)
    IN  IF ~h.ok \/ ~p.ok
        THEN [ok |-> FALSE, next |-> nxt, last |-> lst]
        ELSE hunk_body(b, lst, nxt, h.a, h.b, p.data, pol)

\* After the last hunk: append buf[last..] unless last == buf.len().
stream_end(b, lst, nxt, pol) ==
    IF lst # Len(b)
    THEN LET tail == slice_from(b, lst, pol)
         IN  [ok |-> tail.ok, buf |-> nxt \o tail.data]
    ELSE [ok |-> TRUE, buf |-> nxt]

----------------------------------------------------------------------------
(* The observer of a run of apply. *)

\* The ways the claim calls a hunk malformed, against the reference cursor.
HunkFaults(a, b, cut, cursor, srclen) ==
    {k \in {"truncated", "a>b", "b>len", "a<cursor"} :
        \/ k = "truncated" /\ cut > 0
        \/ k = "a>b" /\ a > b
        \/ k = "b>len" /\ b > srclen
        \/ k = "a<cursor" /\ a < cursor}

ObsInit(base) ==
    [src |-> base,       \* the reference buffer at the start of the stream
     out |-> <<>>,       \* the reference output of the stream so far
     cursor |-> 0,       \* the reference cursor
     wf |-> TRUE,        \* every hunk of every stream so far was well-formed
     faults |-> {},      \* the faults of the current (or just ended) stream
     explen |-> Len(base), \* len(buf) - sum(b - a) + sum(c) over that stream
     hunks |-> 0,        \* hunks of that stream
     noop |-> FALSE,     \* the stream just ended was empty and left buf as it was
     split |-> FALSE,    \* apply returned and was called again between two streams
     ended |-> FALSE]    \* the last step was the end of a stream

\* The observer after a hunk (a, b, data) cut short by cut bytes.
ObsHunk(o, first, a, b, data, cut, curbuf) ==
    LET cursor == IF first THEN 0 ELSE o.cursor
        faults == HunkFaults(a, b, cut, cursor, Len(curbuf))
        wf == o.wf /\ faults = {}
    IN  [o EXCEPT
           !.src = IF wf THEN o.src ELSE <<>>,
           !.out = IF wf THEN (IF first THEN <<>> ELSE o.out)
                              \o SubSeq(o.src, cursor + 1, a) \o data
                   ELSE <<>>,
           !.cursor = b,
           !.wf = wf,
           !.faults = IF first THEN faults ELSE o.faults \cup faults,
           !.explen = (IF first THEN Len(curbuf) ELSE o.explen) - (b - a) + Len(data),
           !.hunks = (IF first THEN 0 ELSE o.hunks) + 1,
           !.noop = FALSE,
           !.ended = FALSE]

\* The observer after the end of a stream that turned curbuf into newbuf.
ObsEnd(o, empty, curbuf, newbuf) ==
    LET cursor == IF empty THEN 0 ELSE o.cursor
        out == IF empty THEN <<>> ELSE o.out
    IN  [o EXCEPT
           !.src = IF o.wf THEN out \o SubSeq(o.src, cursor + 1, Len(o.src)) ELSE <<>>,
           !.out = <<>>,
           !.cursor = 0,
           !.faults = IF empty THEN {} ELSE o.faults,
           !.explen = IF empty THEN Len(curbuf) ELSE o.explen,
           !.hunks = IF empty THEN 0 ELSE o.hunks,
           !.noop = empty /\ newbuf = curbuf,
           !.ended = TRUE]

----------------------------------------------------------------------------
(* patch::apply as a state machine.  A stream is read front to back and   *)
(* never looked ahead into, so its hunks are drawn one loop iteration at  *)
(* a time.                                                                *)

\* A run is followed up to the end of its first malformed stream: what the
\* streams after it do is what they do after a well-formed one.
\* No cursor is being decoded outside apply.
NoCursor == [bytes |-> <<>>, pos |-> 0]

NoHeader == [st |-> "none", a |-> 0, b |-> 0, c |-> 0, start |-> 0, piece |-> <<>>]

HeaderIdle == patch_cur = NoCursor /\ header = NoHeader

\* apply is not running.
PatchIdle ==
    /\ buf = <<>>
    /\ last = 0
    /\ next = <<>>
    /\ pstatus = "idle"
    /\ result = NoResult
    /\ policy = "panic"
    /\ nhunks = 0
    /\ nstreams = 0
    /\ obs = ObsInit(<<>>)

MayStartStream == nhunks > 0 \/ obs.faults = {}

\* No revlog is open while apply runs.
RevlogIdle ==
    /\ path_ok = TRUE
    /\ ifile = <<>>
    /\ dfile = <<>>
    /\ eof_read = "zero"
    /\ rstate = "closed"
    /\ err = "none"
    /\ mapped = {}
    /\ inline = FALSE
    /\ generaldelta = FALSE
    /\ offset_table = <<>>
    /\ incomplete = TRUE
    /\ scan = <<>>
    /\ client = <<>>

PatchInit ==
    /\ RevlogIdle
    /\ HeaderIdle
    /\ policy \in {"panic", "clamp"}
    /\ buf \in SeqsUpTo(BaseBytes, MaxBase)
    /\ last = 0
    /\ next = <<>>
    /\ pstatus = "run"
    /\ result = NoResult
    /\ nhunks = 0
    /\ nstreams = 0
    /\ obs = ObsInit(buf)

\* One iteration of the while loop: a hunk (a, b, data), of which the
\* stream holds all but the last cut bytes.
Hunk ==
    /\ pstatus = "run"
    /\ nhunks < MaxHunks
    /\ nstreams < MaxStreams
    /\ MayStartStream
    /\ \E a \in 0..MaxOff, b \in 0..MaxOff, data \in SeqsUpTo(DataBytes, MaxData),
          cut \in 0..MaxCut :
         LET whole == EncodeHunk(a, b, data)
             bytes == SubSeq(whole, 1, Len(whole) - cut)
             r == hunk_step(buf, last, next, bytes, policy)
         IN  /\ IF r.ok
                THEN /\ next' = r.next
                     /\ last' = r.last
                     /\ pstatus' = "run"
                ELSE /\ pstatus' = "panic"
                     /\ UNCHANGED <<next, last>>
             /\ nhunks' = nhunks + 1
             /\ obs' = ObsHunk(obs, nhunks = 0, a, b, data, cut, buf)
    /\ UNCHANGED <<buf, result, policy, nstreams, fvars, rvars, hvars>>

\* cur.position() == patch_len: the stream is over; buf = next.
EndStream ==
    /\ pstatus = "run"
    /\ nstreams < MaxStreams
    /\ MayStartStream
    /\ LET r == stream_end(buf, last, next, policy)
       IN  /\ IF r.ok
              THEN /\ buf' = r.buf
                   /\ pstatus' = "run"
                   /\ obs' = ObsEnd(obs, nhunks = 0, buf, r.buf)
              ELSE /\ pstatus' = "panic"
                   /\ obs' = [obs EXCEPT !.ended = TRUE]
                   /\ UNCHANGED buf
    /\ last' = 0
    /\ next' = <<>>
    /\ nhunks' = 0
    /\ nstreams' = nstreams + 1
    /\ UNCHANGED <<result, policy, fvars, rvars, hvars>>

\* No stream is left: copy the rope into the result.
Return ==
    /\ pstatus = "run"
    /\ nhunks = 0
    /\ result' = buf
    /\ pstatus' = "done"
    /\ UNCHANGED <<buf, last, next, policy, nhunks, nstreams, obs, fvars, rvars, hvars>>

\* The caller applies further streams to the buffer it got back.
CallAgain ==
    /\ pstatus = "done"
    /\ nstreams < MaxStreams
    /\ buf' = result
    /\ result' = NoResult
    /\ pstatus' = "run"
    /\ obs' = [obs EXCEPT !.ended = FALSE, !.noop = FALSE, !.split = TRUE]
    /\ UNCHANGED <<last, next, policy, nhunks, nstreams, fvars, rvars, hvars>>

PatchNext == Hunk \/ EndStream \/ Return \/ CallAgain

PatchSpec == PatchInit /\ [][PatchNext]_vars

\* The same, with a bytes crate that panics on every range outside the rope.
PatchStrictInit == PatchInit /\ policy = "panic"

PatchSpecStrict == PatchStrictInit /\ [][PatchNext]_vars

----------------------------------------------------------------------------
(* decode_header and read_slice on their own: the cursor of one stream. *)

\* The header of the crate's test, test_header.
TestHeader == <<0, 0, 0, 42, 0, 0, 0, 43, 0, 0, 0, 44>>

\* The 4-byte groups headers are made of: every byte position used, the
\* largest values TLC's integers hold.
Groups ==
    {<<0, 0, 0, 0>>, <<0, 0, 0, 1>>, <<0, 0, 0, 42>>, <<0, 0, 0, 43>>, <<0, 0, 0, 44>>,
     <<0, 0, 1, 0>>, <<0, 2, 0, 0>>, <<3, 0, 0, 0>>, <<127, 255, 255, 255>>}

\* What follows the first hunk in the stream: nothing, a second header, or a
\* second header cut short.
Rests == {<<>>, TestHeader, SubSeq(TestHeader, 1, 11)}

Streams ==
    {g1 \o g2 \o g3 \o data \o rest :
        g1 \in Groups, g2 \in Groups, g3 \in Groups,
        data \in SeqsUpTo(DataBytes, MaxData), rest \in Rests}
    \cup {SubSeq(TestHeader, 1, k) : k \in 1..11}

HeaderInit ==
    /\ PatchIdle
    /\ RevlogIdle
    /\ patch_cur \in {[bytes |-> st, pos |-> 0] : st \in Streams}
    /\ header = NoHeader

\* let (a, b, c) = decode_header(&mut cur), reached while
\* cur.position() != patch_len.
DecodeHeader ==
    /\ header.st \in {"none", "piece"}
    /\ patch_cur.pos # Len(patch_cur.bytes)
    /\ LET h == decode_header(patch_cur.bytes, patch_cur.pos)
       IN  IF h.ok
           THEN /\ header' = [st |-> "header", a |-> h.a, b |-> h.b, c |-> h.c,
                              start |-> patch_cur.pos, piece |-> <<>>]
                /\ patch_cur' = [patch_cur EXCEPT !.pos = h.pos]
           ELSE /\ header' = [header EXCEPT !.st = "panic"]
                /\ UNCHANGED patch_cur
    /\ UNCHANGED <<pvars, fvars, rvars>>

\* read_slice(&mut cur, c)
ReadSlice ==
    /\ header.st = "header"
    /\ LET p == read_slice(patch_cur.bytes, patch_cur.pos, header.c)
       IN  IF p.ok
           THEN /\ header' = [header EXCEPT !.st = "piece", !.piece = p.data]
                /\ patch_cur' = [patch_cur EXCEPT !.pos = p.pos]
           ELSE /\ header' = [header EXCEPT !.st = "panic"]
                /\ UNCHANGED patch_cur
    /\ UNCHANGED <<pvars, fvars, rvars>>

HeaderNext == DecodeHeader \/ ReadSlice

HeaderSpec == HeaderInit /\ [][HeaderNext]_vars

----------------------------------------------------------------------------
(* Properties of patch::apply. *)

\* C1: for well-formed streams apply is the fold of the per-stream
\* reference src[0..a1] ++ data1 ++ src[b1..a2] ++ ... ++ src[bk..], every
\* offset measured against the buffer at the start of its stream; an empty
\* stream leaves the buffer as it was; and applying the streams in one call
\* or in successive calls gives the same buffer.
C1_ApplyIsReferenceFold ==
    obs.wf =>
        /\ pstatus # "panic"
        /\ buf = obs.src
        /\ next = obs.out
        /\ (obs.ended /\ obs.hunks = 0) => obs.noop
        /\ pstatus = "done" => result = obs.src

\* C1 witness: two well-formed streams, the last with two hunks that delete
\* and insert, applied in two calls, and apply returned.
C1_Witness ==
    /\ obs.wf /\ pstatus = "done" /\ nstreams = 2 /\ obs.split
    /\ obs.hunks = 2 /\ result # <<>> /\ Len(result) # obs.explen + 1
    /\ \E i \in 1..Len(result) : result[i] \in DataBytes

\* C2: whenever a stream is applied and a buffer comes back, its length is
\* len(src) - sum(b - a) + sum(c).
C2_LengthLaw ==
    (obs.ended /\ pstatus # "panic") => Len(buf) = obs.explen

\* C3: a stream that is truncated, or has a hunk with a > b, b > len(src) or
\* a < cursor, makes apply fail and yields no buffer.
C3_MalformedFails ==
    (obs.ended /\ obs.faults # {}) => (pstatus = "panic" /\ result = NoResult)

----------------------------------------------------------------------------
(* Revlog files, as a writer lays them out. *)

MaxRevs == 3      \* most records in an index file

Missing == <<-1>>
None == <<>>
Some(x) == <<x>>

\* An offset no file of the model reaches; every offset beyond it is read as Far.
Far == 1000 * 1000

Zeros(n) == [i \in 1..n |-> 0]

\* x + y on machine words.  The program's sum cannot overflow 64 bits; the
\* model reads every sum past Far as past every file.
Plus(x, y) == IF x >= Far \/ y >= Far THEN 2 * Far ELSE x + y

\* A signed 32-bit integer in big-endian two's complement.
BE32S(n) ==
    IF n >= 0
    THEN BE32(n)
    ELSE <<255, ((16777216 + n) \div 65536) % 256, ((16777216 + n) \div 256) % 256,
           (16777216 + n) % 256>>

\* The flag word of record 0.
FlagWord(ng, inl, gd) ==
    (IF ng THEN 1 ELSE 0) + (IF inl THEN 65536 ELSE 0) + (IF gd THEN 131072 ELSE 0)

\* The 64 bytes of an index record.  head is the 8-byte offset_flags field.
RecordBytes(head, comp, base, rev, tailok) ==
    head \o BE32S(comp) \o BE32S(comp) \o BE32S(base) \o BE32S(rev)
         \o BE32S(rev - 1) \o BE32S(-1)
         \o [i \in 1..20 |-> 16 + rev]
         \o (IF tailok THEN Zeros(12) ELSE Zeros(11) \o <<1>>)

\* offset_flags of record 0: the flag word, then zeros.
Head0(flagword) == BE32(flagword) \o Zeros(4)

\* offset_flags of a later record: the 48-bit data offset, then 16 flag bits.
HeadN(off) == Zeros(2) \o BE32(off) \o Zeros(2)

RECURSIVE SumLen(_, _)
SumLen(payloads, k) == IF k = 0 THEN 0 ELSE SumLen(payloads, k - 1) + Len(payloads[k])

\* Record i (1-based) of a file description d:
\*   d.flagword, d.payloads[i], d.comp[i] (the declared comp_len), d.base[i],
\*   d.tailok[i].
DescRecord(d, i) ==
    RecordBytes(IF i = 1 THEN Head0(d.flagword) ELSE HeadN(SumLen(d.payloads, i - 1)),
                d.comp[i], d.base[i], i - 1, d.tailok[i])

RECURSIVE InlineBytes(_, _)
InlineBytes(d, k) ==
    IF k = 0 THEN <<>> ELSE InlineBytes(d, k - 1) \o DescRecord(d, k) \o d.payloads[k]

RECURSIVE IndexBytes(_, _)
IndexBytes(d, k) == IF k = 0 THEN <<>> ELSE IndexBytes(d, k - 1) \o DescRecord(d, k)

RECURSIVE DataBytesOf(_, _)
DataBytesOf(d, k) == IF k = 0 THEN <<>> ELSE DataBytesOf(d, k - 1) \o d.payloads[k]

\* trail: -1 drops the last byte of the index file, 1 appends a zero byte.
Trail(bytes, trail) ==
    IF trail = -1 THEN SubSeq(bytes, 1, Len(bytes) - 1)
    ELSE IF trail = 1 THEN bytes \o <<0>>
    ELSE bytes

DescInline(d) == d.flagword \div 65536 % 2 = 1

DescIndex(d) ==
    Trail(IF DescInline(d) THEN InlineBytes(d, Len(d.payloads))
          ELSE IndexBytes(d, Len(d.payloads)), d.trail)

DescData(d) == DataBytesOf(d, Len(d.payloads))

----------------------------------------------------------------------------
(* util.rs: MappedData *)

\* mem::size_of::<RevlogChunk>()
ChunkSize == 64

\* extract_value::<RevlogChunk>(index): both assert!s.
extract_value(file, index) == index >= 0 /\ index + ChunkSize <= Len(file)

\* extract_slice(index, len): len is a usize, compared after `len as isize`,
\* which keeps the bit pattern: the word is compared as a signed number.
extract_slice(file, index, len) ==
    [ok |-> index >= 0 /\ Plus(index, len) <= Len(file), start |-> index, len |-> len]

----------------------------------------------------------------------------
(* revlog.rs: RevlogChunk *)

Byte(file, off) == file[off + 1]

\* i32::from_be of the four bytes at off.
i32_from_be(file, off) ==
    LET b0 == Byte(file, off)
    IN  (IF b0 >= 128 THEN b0 - 256 ELSE b0) * 16777216
        + Byte(file, off + 1) * 65536 + Byte(file, off + 2) * 256 + Byte(file, off + 3)

\* (offset_flags() >> 32) as u32: the first four bytes, big-endian.
flag_word(file, off) ==
    ((Byte(file, off) * 256 + Byte(file, off + 1)) * 256 + Byte(file, off + 2)) * 256
    + Byte(file, off + 3)

\* The mutant of chunk_offset: offset_flags() & 0x0000_FFFF_FFFF_FFFF, the
\* last six bytes.
chunk_offset_low48(file, off) ==
    IF Byte(file, off + 2) = 0 /\ Byte(file, off + 3) = 0 /\ Byte(file, off + 4) < 128
    THEN ((Byte(file, off + 4) * 256 + Byte(file, off + 5)) * 256 + Byte(file, off + 6)) * 256
         + Byte(file, off + 7)
    ELSE Far

\* RevlogChunk::offset(): offset_flags() >> 16, the first six bytes.
chunk_offset(file, off) ==
    IF Byte(file, off) = 0 /\ Byte(file, off + 1) = 0 /\ Byte(file, off + 2) < 128
    THEN ((Byte(file, off + 2) * 256 + Byte(file, off + 3)) * 256 + Byte(file, off + 4)) * 256
         + Byte(file, off + 5)
    ELSE Far

comp_len(file, off) == i32_from_be(file, off + 8)

chunk_base_rev(file, off) == i32_from_be(file, off + 16)

chunk_parent_1(file, off) == i32_from_be(file, off + 24)

chunk_parent_2(file, off) == i32_from_be(file, off + 28)

\* The mutant of node_tail_zero: the last byte of the id is not looked at.
node_tail_zero_short(file, off) == \A i \in 52..62 : Byte(file, off + i) = 0

\* result.chunk.c_node_id[20..] == [0; 12]
node_tail_zero(file, off) == \A i \in 52..63 : Byte(file, off + i) = 0

REVLOGNG == 1
REVLOGNGINLINEDATA == 65536
REVLOGGENERALDELTA == 131072

\* flags & bit != 0, for a bit that is a power of two.
HasFlag(flags, bit) == (flags \div bit) % 2 = 1

----------------------------------------------------------------------------
(* revlog.rs: Revlog, RevlogEntry and the iterators *)

NoEntry == [revno |-> -1, byte_offset |-> -1, data |-> [file |-> "i", start |-> 0, len |-> 0]]

Fail(st) == [st |-> st, e |-> NoEntry]

FileOf(name) == IF name = "i" THEN ifile ELSE dfile

\* [T]::binary_search: the index of x in t (0-based), or -1 for Err.
RECURSIVE binary_search_from(_, _, _, _)
binary_search_from(t, x, base, lim) ==
    IF lim = 0 THEN -1
    ELSE LET ix == base + (lim \div 2)
         IN  IF t[ix + 1] = x THEN ix
             ELSE IF t[ix + 1] < x
             THEN binary_search_from(t, x, ix + 1, (lim - 1) \div 2)
             ELSE binary_search_from(t, x, base, lim \div 2)

binary_search(t, x) == binary_search_from(t, x, 0, Len(t))

\* The mutant of revno_from_offset: revisions counted from 1.
revno_from_offset_one(offset) ==
    IF incomplete THEN [ok |-> TRUE, v |-> -1]
    ELSE IF inline
    THEN LET i == binary_search(offset_table, offset) IN [ok |-> i >= 0, v |-> i + 1]
    ELSE [ok |-> TRUE, v |-> offset \div 64 + 1]

\* Revlog::revno_from_offset
revno_from_offset(offset) ==
    IF incomplete THEN [ok |-> TRUE, v |-> -1]
    ELSE IF inline
    THEN LET i == binary_search(offset_table, offset) IN [ok |-> i >= 0, v |-> i]
    ELSE [ok |-> TRUE, v |-> offset \div 64]

\* The data frame of the record at offset: a slice of the inline data or of
\* the external data.
entry_data(offset) ==
    IF inline
    THEN [file |-> "i"] @@ extract_slice(ifile, offset + 64, comp_len(ifile, offset))
    ELSE [file |-> "d"]
         @@ extract_slice(dfile, IF offset = 0 THEN 0 ELSE chunk_offset(ifile, offset),
                          comp_len(ifile, offset))

\* data[0] as the sanity check reads it: "ok", "weird", or "fault" when the
\* byte lies past the end of the map and the read faults.
first_byte(d) ==
    IF d.start >= Len(FileOf(d.file))
    THEN IF eof_read = "zero" THEN "ok" ELSE "fault"
    ELSE IF Byte(FileOf(d.file), d.start) \in {0, 117, 120} THEN "ok" ELSE "weird"

\* Revlog::index_entry_at_byte(offset, revno)
index_entry_at_byte(offset, revno) ==
    IF ~inline /\ offset % 64 # 0 THEN Fail("err")
    ELSE IF ~extract_value(ifile, offset) THEN Fail("panic")
    ELSE LET d == entry_data(offset)
             rn == IF revno # None THEN [ok |-> TRUE, v |-> revno[1]]
                   ELSE revno_from_offset(offset)
         IN  IF ~d.ok THEN Fail("panic")
             ELSE IF ~rn.ok THEN Fail("err")
             ELSE IF ~node_tail_zero(ifile, offset) THEN Fail("err")
             ELSE IF d.len # 0 /\ first_byte(d) = "fault" THEN Fail("panic")
             ELSE IF d.len # 0 /\ first_byte(d) = "weird" THEN Fail("err")
             ELSE [st |-> "ok",
                   e |-> [revno |-> rn.v, byte_offset |-> offset,
                          data |-> [file |-> d.file, start |-> d.start, len |-> d.len]]]

\* The mutant of revlog_len: a separate index counted one record short.
revlog_len_short ==
    IF inline THEN Len(offset_table) ELSE (Len(ifile) - 1) \div 64

\* Revlog::len
revlog_len ==
    IF inline THEN Len(offset_table) ELSE Len(ifile) \div 64

\* The mutant of index: the entry is numbered from 1.
index_from_one(i) ==
    IF inline
    THEN IF i < 0 THEN Fail("err")
         ELSE IF ~(i < Len(offset_table)) THEN Fail("err")
         ELSE index_entry_at_byte(offset_table[i + 1], Some(i + 1))
    ELSE index_entry_at_byte(64 * i, Some(i + 1))

\* Revlog::index
index(i) ==
    IF inline
    THEN IF i < 0 THEN Fail("err")
         ELSE IF ~(i < Len(offset_table)) THEN Fail("err")
         ELSE index_entry_at_byte(offset_table[i + 1], Some(i))
    ELSE index_entry_at_byte(64 * i, Some(i))

\* RevlogEntry::inline_advance: the offset of the next record.
inline_next(e) == Plus(e.byte_offset, comp_len(ifile, e.byte_offset)) + 64

\* RevlogIterator::next: "none" for None, else what the entry lookup gave.
iterator_next(cur) ==
    IF cur = None THEN index_entry_at_byte(0, None)
    ELSE IF inline
    THEN IF inline_next(cur[1]) = Len(ifile) THEN Fail("none")
         ELSE index_entry_at_byte(inline_next(cur[1]), None)
    ELSE IF cur[1].byte_offset + 64 = Len(ifile) THEN Fail("none")
         ELSE index_entry_at_byte(cur[1].byte_offset + 64, None)

\* RevlogEntry::offset
entry_offset(e) ==
    IF e.byte_offset = 0 THEN 0 ELSE chunk_offset(ifile, e.byte_offset)

\* RevlogEntry::parent_1_id (which = 1) and parent_2_id (which = 2): the
\* entry whose c_node_id is returned, or NoEntry for NULL_ID.
parent_id(e, which) ==
    LET p == IF which = 1 THEN chunk_parent_1(ifile, e.byte_offset)
             ELSE chunk_parent_2(ifile, e.byte_offset)
    IN  IF p = -1 THEN [st |-> "ok", e |-> NoEntry] ELSE index(p)

\* RevlogEntry::base_rev
base_rev(e) ==
    IF chunk_base_rev(ifile, e.byte_offset) = e.revno /\ generaldelta
    THEN -1
    ELSE chunk_base_rev(ifile, e.byte_offset)

----------------------------------------------------------------------------
(* The revlogs the reader is run on. *)

Payloads == {<<>>, <<117>>}

\* What a corrupt record declares on top of its payload's length.
Skews == {-64, -1, 64}

FlagWords == {FlagWord(ng, inl, gd) : ng \in BOOLEAN, inl \in BOOLEAN, gd \in BOOLEAN}

Lens(payloads) == [i \in 1..Len(payloads) |-> Len(payloads[i])]

\* Each revision a delta on the one before it; revision 0 a fulltext.
PlainBase(n) == [i \in 1..n |-> IF i = 1 THEN 0 ELSE i - 2]

AllTrue(n) == [i \in 1..n |-> TRUE]

Desc(flagword, payloads, comp, base, tailok, trail) ==
    [flagword |-> flagword, payloads |-> payloads, comp |-> comp, base |-> base,
     tailok |-> tailok, trail |-> trail]

\* Well laid out files, and files with one anomaly: a record whose comp_len
\* is skewed, whose node id is not zero padded, or whose payload starts with
\* an unknown framing byte; or an index a byte short or a byte long.
LayoutVariants(fw, ps) ==
    LET n == Len(ps)
        ok == Desc(fw, ps, Lens(ps), PlainBase(n), AllTrue(n), 0)
    IN  {ok, [ok EXCEPT !.trail = -1], [ok EXCEPT !.trail = 1]}
        \cup {[ok EXCEPT !.comp[i] = @ + k] : i \in 1..n, k \in Skews}
        \cup {[ok EXCEPT !.tailok[i] = FALSE] : i \in 1..n}
        \cup {[ok EXCEPT !.payloads[i] = <<33>>, !.comp[i] = 1] : i \in 1..n}

LayoutDescs ==
    UNION {LayoutVariants(fw, ps) :
             ps \in UNION {[1..n -> Payloads] : n \in 1..MaxRevs},
             fw \in {FlagWord(TRUE, FALSE, FALSE), FlagWord(TRUE, TRUE, FALSE)}}

\* Inline files of bare records whose comp_len point anywhere.
JumpDescs ==
    {Desc(FlagWord(TRUE, TRUE, FALSE), [i \in 1..Len(comp) |-> <<>>], comp,
          PlainBase(Len(comp)), AllTrue(Len(comp)), 0) :
        comp \in UNION {[1..n -> {0, 64, -128}] : n \in 1..MaxRevs}}

\* Files whose base_rev fields point anywhere, under both delta schemes.
ChainDescs ==
    {Desc(FlagWord(TRUE, inl, gd), [i \in 1..MaxRevs |-> <<117>>],
          [i \in 1..MaxRevs |-> 1], base, AllTrue(MaxRevs), 0) :
        inl \in BOOLEAN, gd \in BOOLEAN, base \in [1..MaxRevs -> -1..MaxRevs]}

\* One-record files under every flag word.
FlagDescs ==
    {Desc(fw, <<p>>, <<Len(p)>>, <<0>>, <<TRUE>>, 0) : fw \in FlagWords, p \in Payloads}

Descs == LayoutDescs \cup JumpDescs \cup ChainDescs

NoScan == [cur |-> None, tmp |-> <<>>]

NoClient == [kind |-> "none", st |-> "none", cur |-> None, out |-> <<>>, arg |-> 0,
             res |-> NoEntry, val |-> 0]

Closed ==
    /\ rstate = "closed"
    /\ err = "none"
    /\ mapped = {}
    /\ inline = FALSE
    /\ generaldelta = FALSE
    /\ offset_table = <<>>
    /\ incomplete = TRUE
    /\ scan = NoScan
    /\ client = NoClient

Init ==
    /\ PatchIdle
    /\ HeaderIdle
    /\ Closed
    /\ eof_read \in {"zero", "fault"}
    /\ \/ \E d \in Descs :
            /\ path_ok = TRUE
            /\ ifile = DescIndex(d)
            /\ dfile = DescData(d)
       \/ \E d \in FlagDescs, pok \in BOOLEAN, dthere \in BOOLEAN :
            /\ path_ok = pok
            /\ ifile = DescIndex(d)
            /\ dfile = IF dthere THEN DescData(d) ELSE Missing
       \/ /\ path_ok = TRUE
          /\ ifile \in {Zeros(1), Zeros(63)}
          /\ dfile = <<>>

----------------------------------------------------------------------------
(* The reader as a state machine. *)

\* The longest scan or chain the model follows: one step more than any file
\* of MaxRevs records needs, so that a scan or chain that revisits a record
\* is seen to.
StepCap == MaxRevs + 1

\* The mutant of open_flags: the inline bit read from the general-delta bit.
open_flags_swapped(flags) ==
    [ng |-> HasFlag(flags, REVLOGNG),
     inline |-> HasFlag(flags, REVLOGGENERALDELTA),
     generaldelta |-> HasFlag(flags, REVLOGGENERALDELTA)]

\* What open reads out of the flag word of the first record.
open_flags(flags) ==
    [ng |-> HasFlag(flags, REVLOGNG),
     inline |-> HasFlag(flags, REVLOGNGINLINEDATA),
     generaldelta |-> HasFlag(flags, REVLOGGENERALDELTA)]

OpenFails(why, maps) ==
    /\ rstate' = "failed"
    /\ err' = why
    /\ mapped' = maps
    /\ UNCHANGED <<inline, generaldelta, offset_table, incomplete, scan>>

\* Revlog::open, up to the first step of init.  A separate revlog is Ready
\* when open returns; an inline one enters init's scan.
Open ==
    /\ rstate = "closed"
    /\ IF ~path_ok THEN OpenFails("BadName", {})
       ELSE IF ~extract_value(ifile, 0)
       THEN /\ rstate' = "panic"
            /\ mapped' = {"i"}
            /\ UNCHANGED <<err, inline, generaldelta, offset_table, incomplete, scan>>
       ELSE LET f == open_flags(flag_word(ifile, 0))
            IN  IF ~f.ng THEN OpenFails("UnsupportedVersion", {"i"})
                ELSE IF ~f.inline /\ dfile = Missing THEN OpenFails("IoError", {"i"})
                ELSE /\ mapped' = IF f.inline THEN {"i"} ELSE {"i", "d"}
                     /\ inline' = f.inline
                     /\ generaldelta' = f.generaldelta
                     /\ offset_table' = <<>>
                     /\ incomplete' = f.inline
                     /\ rstate' = IF f.inline THEN "scanning" ELSE "ready"
                     /\ UNCHANGED <<err, scan>>
    /\ UNCHANGED <<client, pvars, fvars, hvars>>

\* The mutant of init_finish: _incomplete is left set.
init_finish_incomplete(tmp) == [offset_table |-> tmp, incomplete |-> TRUE]

\* The end of init: self.offset_table = offset_tmp; self._incomplete = false.
init_finish(tmp) == [offset_table |-> tmp, incomplete |-> FALSE]

\* One turn of init's `for entry in self.iter()`, or its end.
ScanStep ==
    /\ rstate = "scanning"
    /\ Len(scan.tmp) <= StepCap
    /\ LET r == iterator_next(scan.cur)
       IN  CASE r.st = "ok" ->
                  /\ scan' = [cur |-> Some(r.e), tmp |-> Append(scan.tmp, r.e.byte_offset)]
                  /\ UNCHANGED <<rstate, err, offset_table, incomplete>>
             [] r.st = "none" ->
                  /\ offset_table' = init_finish(scan.tmp).offset_table
                  /\ incomplete' = init_finish(scan.tmp).incomplete
                  /\ rstate' = "ready"
                  /\ scan' = [scan EXCEPT !.cur = None]
                  /\ UNCHANGED err
             [] r.st = "err" ->
                  /\ rstate' = "failed"
                  /\ err' = "CorruptIndex"
                  /\ UNCHANGED <<scan, offset_table, incomplete>>
             [] r.st = "panic" ->
                  /\ rstate' = "panic"
                  /\ UNCHANGED <<scan, err, offset_table, incomplete>>
    /\ UNCHANGED <<mapped, inline, generaldelta, client, pvars, fvars, hvars>>

\* Revlog::iter
Iter ==
    /\ rstate = "ready"
    /\ client' = [NoClient EXCEPT !.kind = "iter", !.st = "active"]
    /\ UNCHANGED <<rstate, err, mapped, inline, generaldelta, offset_table, incomplete,
                   scan, pvars, fvars, hvars>>

\* RevlogIterator::next, called until it gives None or an Err.
IterNext ==
    /\ rstate = "ready"
    /\ client.kind = "iter"
    /\ client.st = "active"
    /\ Len(client.out) <= StepCap
    /\ LET r == iterator_next(client.cur)
       IN  client' = CASE r.st = "ok" ->
                            [client EXCEPT !.cur = Some(r.e), !.out = Append(@, r.e)]
                       [] r.st = "none" -> [client EXCEPT !.cur = None, !.st = "ended"]
                       [] r.st = "err" -> [client EXCEPT !.st = "err"]
                       [] r.st = "panic" -> [client EXCEPT !.st = "panic"]
    /\ UNCHANGED <<rstate, err, mapped, inline, generaldelta, offset_table, incomplete,
                   scan, pvars, fvars, hvars>>

\* Revlog::index(revno)
Index ==
    /\ rstate = "ready"
    /\ \E i \in -1..(MaxRevs + 1) :
         LET r == index(i)
         IN  client' = [NoClient EXCEPT !.kind = "index", !.st = r.st, !.arg = i,
                                        !.res = r.e]
    /\ UNCHANGED <<rstate, err, mapped, inline, generaldelta, offset_table, incomplete,
                   scan, pvars, fvars, hvars>>

\* Revlog::len
RevlogLen ==
    /\ rstate = "ready"
    /\ client' = [NoClient EXCEPT !.kind = "len", !.st = "ok", !.val = revlog_len]
    /\ UNCHANGED <<rstate, err, mapped, inline, generaldelta, offset_table, incomplete,
                   scan, pvars, fvars, hvars>>

\* RevlogEntry::parent_1_id / parent_2_id, on the entry index(revno) gave.
ParentId ==
    /\ rstate = "ready"
    /\ \E i \in 0..(MaxRevs - 1), which \in {1, 2} :
         /\ index(i).st = "ok"
         /\ LET r == parent_id(index(i).e, which)
            IN  client' = [NoClient EXCEPT !.kind = "parent", !.st = r.st, !.arg = i,
                                           !.val = which, !.res = r.e]
    /\ UNCHANGED <<rstate, err, mapped, inline, generaldelta, offset_table, incomplete,
                   scan, pvars, fvars, hvars>>

\* RevlogEntry::offset, on the entry index(revno) gave.
Offset ==
    /\ rstate = "ready"
    /\ \E i \in 0..(MaxRevs - 1) :
         /\ index(i).st = "ok"
         /\ client' = [NoClient EXCEPT !.kind = "offset", !.st = "ok", !.arg = i,
                                       !.res = index(i).e,
                                       !.val = entry_offset(index(i).e)]
    /\ UNCHANGED <<rstate, err, mapped, inline, generaldelta, offset_table, incomplete,
                   scan, pvars, fvars, hvars>>

\* RevlogEntry::delta_chain, on the entry index(revno) gave.
DeltaChainStart ==
    /\ rstate = "ready"
    /\ \E i \in 0..(MaxRevs - 1) :
         /\ index(i).st = "ok"
         /\ client' = [NoClient EXCEPT !.kind = "chain", !.st = "active", !.arg = i,
                                       !.cur = Some(index(i).e)]
    /\ UNCHANGED <<rstate, err, mapped, inline, generaldelta, offset_table, incomplete,
                   scan, pvars, fvars, hvars>>

\* DeltaChain::next: yield cur's data and move to its base; the chain is
\* over once cur is None.
DeltaChainNext ==
    /\ rstate = "ready"
    /\ client.kind = "chain"
    /\ client.st = "active"
    /\ Len(client.out) <= StepCap
    /\ LET cur == client.cur[1]
           next_rev == base_rev(cur)
       IN  IF next_rev = -1 \/ next_rev = cur.revno
           THEN client' = [client EXCEPT !.cur = None, !.out = Append(@, cur),
                                         !.st = "ended"]
           ELSE IF index(next_rev).st = "ok"
           THEN client' = [client EXCEPT !.cur = Some(index(next_rev).e),
                                         !.out = Append(@, cur)]
           ELSE client' = [client EXCEPT !.st = "panic"]
    /\ UNCHANGED <<rstate, err, mapped, inline, generaldelta, offset_table, incomplete,
                   scan, pvars, fvars, hvars>>

Next ==
    \/ Open
    \/ ScanStep
    \/ Iter
    \/ IterNext
    \/ Index
    \/ RevlogLen
    \/ ParentId
    \/ Offset
    \/ DeltaChainStart
    \/ DeltaChainNext

Spec == Init /\ [][Next]_vars

----------------------------------------------------------------------------
(* Properties of the reader. *)

Ready == rstate = "ready"

Range(q) == {q[k] : k \in 1..Len(q)}

NoRepeats(q) == \A j, k \in 1..Len(q) : j # k => q[j] # q[k]

\* C4: on a Ready revlog the entries iter() yields start at byte_offset 0,
\* revno 0, and each next one has a greater byte_offset and the next revno.
C4_IterFileOrder ==
    (Ready /\ client.kind = "iter") =>
        \A k \in 1..Len(client.out) :
            /\ client.out[k].revno = k - 1
            /\ k = 1 => client.out[k].byte_offset = 0
            /\ k > 1 => client.out[k].byte_offset > client.out[k - 1].byte_offset

C4_Witness ==
    /\ Ready /\ inline /\ client.kind = "iter" /\ client.st = "ended"
    /\ Len(client.out) = MaxRevs
    /\ client.out[MaxRevs].byte_offset > 64 * (MaxRevs - 1)

C6_IndexContract ==
    (Ready /\ client.kind = "index") =>
        IF 0 <= client.arg /\ client.arg < revlog_len
        THEN client.st = "ok" =>
                /\ client.res.revno = client.arg
                /\ client.res.byte_offset =
                      IF inline THEN offset_table[client.arg + 1] ELSE 64 * client.arg
        ELSE client.st = "err" /\ client.res = NoEntry

\* C7: the scan of an inline index ends; it visits o_0 = 0,
\* o_{k+1} = o_k + 64 + comp_len_k, gives the table of these offsets when
\* one of them is the file length, and reports CorruptIndex otherwise.  The
\* scan is a function of the offset, so one that comes back to an offset
\* never ends.
C7_InitScanEnds ==
    inline =>
        /\ NoRepeats(scan.tmp)
        /\ rstate # "panic"
        /\ \A k \in 1..Len(scan.tmp) :
              scan.tmp[k] = IF k = 1 THEN 0
                            ELSE scan.tmp[k - 1] + 64 + comp_len(ifile, scan.tmp[k - 1])
        /\ rstate = "failed" => err = "CorruptIndex"
        /\ rstate = "ready" =>
              /\ offset_table = scan.tmp
              /\ LET o == scan.tmp[Len(scan.tmp)]
                 IN  o + 64 + comp_len(ifile, o) = Len(ifile)

\* The entries the reader has handed out or holds.
HeldEntries ==
    Range(client.out) \cup Range(client.cur) \cup Range(scan.cur)
    \cup (IF client.kind = "index" /\ client.st = "ok" THEN {client.res} ELSE {})

\* C8: a slice is handed out only if its offset is not negative and offset
\* plus length, the length read as the unsigned word it is, is within the
\* file; any other access fails with an error.
C8_AccessInBounds ==
    /\ \A e \in HeldEntries :
          /\ e.byte_offset >= 0
          /\ e.byte_offset + ChunkSize <= Len(ifile)
          /\ e.data.start >= 0
          /\ e.data.len >= 0
          /\ e.data.start + e.data.len <= Len(FileOf(e.data.file))
    /\ rstate # "panic"
    /\ client.st # "panic"

\* C9: a delta chain is finite.  Each step is a function of the entry, so a
\* chain that comes back to a revision never ends; and a chain ends by
\* reaching a base, not by aborting.
C9_DeltaChainFinite ==
    (Ready /\ client.kind = "chain") =>
        /\ NoRepeats([k \in 1..Len(client.out) |-> client.out[k].revno])
        /\ client.st # "panic"
        /\ Len(client.out) > 0 => client.out[1].revno = client.arg
        /\ \A k \in 2..Len(client.out) :
              client.out[k].revno = base_rev(client.out[k - 1])
        /\ client.st = "ended" =>
              LET e == client.out[Len(client.out)]
              IN  base_rev(e) = -1 \/ base_rev(e) = e.revno

\* Bits 0, 16 and 17 of the big-endian flag word, read off the file's bytes.
FileBitNG == ifile[4] % 2 = 1
FileBitInline == ifile[2] % 2 = 1
FileBitGeneralDelta == (ifile[2] \div 2) % 2 = 1

\* C10: open refuses a path without ".i" with BadName before mapping a file,
\* and a flag word without the NG bit with UnsupportedVersion; else the
\* revlog is inline iff bit 16 is set and general-delta iff bit 17 is set, the
\* .d file is mapped iff it is not inline, and a missing .d fails the open.
C10_OpenClassifies ==
    (rstate # "closed") =>
        IF ~path_ok THEN rstate = "failed" /\ err = "BadName" /\ mapped = {}
        ELSE IF Len(ifile) < ChunkSize THEN TRUE
        ELSE IF ~FileBitNG THEN rstate = "failed" /\ err = "UnsupportedVersion"
        ELSE IF ~FileBitInline /\ dfile = Missing
        THEN rstate = "failed" /\ err = "IoError" /\ "d" \notin mapped
        ELSE /\ err \notin {"BadName", "UnsupportedVersion", "IoError"}
             /\ inline = FileBitInline
             /\ generaldelta = FileBitGeneralDelta
             /\ ("d" \in mapped) = ~inline
             /\ "i" \in mapped

C10_Witness ==
    /\ Ready /\ ~inline /\ generaldelta /\ mapped = {"i", "d"}
    /\ client.kind = "index" /\ client.st = "ok"

\* The six bytes a 48-bit number v < 2^32 is stored in.
BE48(v) == <<0, 0>> \o BE32(v)

IdPadded(off) == SubSeq(ifile, off + 53, off + 64) = Zeros(12)

Framed(d) ==
    \/ d.len = 0
    \/ /\ d.start < Len(FileOf(d.file))
       /\ FileOf(d.file)[d.start + 1] \in {0, 117, 120}
    \/ /\ d.start >= Len(FileOf(d.file))
       /\ eof_read = "zero"

\* Where index(i) looks for its record.
RecordOffset(i) == IF inline THEN offset_table[i + 1] ELSE 64 * i

\* A whole record at off whose padding or whose in-file payload breaks the
\* invariants.
BrokenRecord(off) ==
    /\ off + ChunkSize <= Len(ifile)
    /\ \/ ~IdPadded(off)
       \/ LET d == entry_data(off)
          IN  d.ok /\ d.len > 0 /\ d.start < Len(FileOf(d.file)) /\ ~Framed(d)

RevlogValue == <<rstate, mapped, inline, generaldelta, offset_table, incomplete>>

\* The steps of the lifecycle.
LifecycleStep ==
    \/ rstate' = rstate
    \/ rstate = "closed" /\ rstate' \in {"scanning", "ready", "failed", "panic"}
    \/ rstate = "scanning" /\ rstate' \in {"ready", "failed", "panic"}

LifecycleState ==
    /\ rstate = "ready" => ~incomplete
    /\ rstate = "scanning" =>
          /\ inline /\ incomplete /\ offset_table = <<>>
          /\ \A e \in Range(scan.cur) : e.revno = -1
          /\ \A k \in 1..Len(scan.tmp) : revno_from_offset(scan.tmp[k]).v = -1
    /\ (rstate = "ready" /\ ~inline) => scan = NoScan
    /\ rstate # "ready" => client = NoClient

\* C14: open goes Opening -> Scanning -> Ready, without Scanning in separate
\* mode; a revlog it returns is Ready with _incomplete false, and none is
\* returned after a failed scan; a revno resolved while Scanning is -1; no
\* call on a Ready revlog changes its jump table, flags or state.
C14_Lifecycle ==
    /\ []LifecycleState
    /\ [][/\ LifecycleStep
          /\ rstate' = "scanning" => inline'
          /\ rstate = "ready" => RevlogValue' = RevlogValue]_vars

C14_Witness ==
    /\ Ready /\ inline /\ ~incomplete /\ Len(offset_table) = MaxRevs
    /\ client.kind = "chain" /\ client.st = "ended" /\ Len(client.out) = MaxRevs

\* C15: on a Ready revlog the k-th entry iter() yields, its revno resolved
\* from its byte offset, is the entry index(k) returns: the same revno, byte
\* offset and payload slice.
C15_IterAgreesWithIndex ==
    (Ready /\ client.kind = "iter") =>
        \A k \in 1..Len(client.out) :
            /\ k - 1 < revlog_len
            /\ index(k - 1).st = "ok"
            /\ index(k - 1).e.revno = client.out[k].revno
            /\ index(k - 1).e.byte_offset = client.out[k].byte_offset
            /\ index(k - 1).e.data = client.out[k].data

C15_Witness ==
    /\ Ready /\ ~inline /\ client.kind = "iter" /\ client.st = "ended"
    /\ Len(client.out) = MaxRevs
    /\ client.out[MaxRevs].data.start > 0
    /\ client.out[MaxRevs].data.len > 0
    /\ index(MaxRevs - 1).st = "ok"

====
